---- MODULE Spec2Model ----
(***************************************************************************)
(* A model of engine.py: the particle/predator stepping engine.            *)
(*                                                                         *)
(* Numbers: a Python float is modelled as a fixed-point number, an integer *)
(* count of 1/Unit units; sums are exact, products and quotients round    *)
(* toward zero, and the Euclidean norm rounds down to the grid (it is      *)
(* exact in one dimension).                                                *)
(*                                                                         *)
(* Objects: numpy arrays and State objects have identity.  `arrays` is the *)
(* heap of arrays, `objects` the heap of State objects whose fields are    *)
(* addresses into `arrays`; an in-place update (`*=`, `+=`, clip) rewrites *)
(* an address, a rebind (`self._state.a = ...`) allocates a new one.       *)
(***************************************************************************)
EXTENDS Integers, Sequences, FiniteSets, TLC

\* ------------------------------------------------------------------ bounds
MaxN == 2       \* at most this many particles
MaxM == 1       \* at most this many predators
Dim == 1        \* dimensions of the space
MaxIter == 2    \* at most this many iterations per run

\* ------------------------------------------------------- float arithmetic
Unit == 16     \* units per 1.0

Abs(x) == IF x < 0 THEN -x ELSE x

\* a / b rounded toward zero, b > 0
TruncDiv(a, b) == IF a >= 0 THEN a \div b ELSE -((-a) \div b)

\* the float nearest below n/d, d > 0
R(n, d) == TruncDiv(n * Unit, d)

Zero == R(0, 1)
One == R(1, 1)

Add(x, y) == x + y
Neg(x) == -x
Sub(x, y) == x - y
Mul(x, y) == TruncDiv(x * y, Unit)
\* x / y for y # 0
Div(x, y) == IF y > 0 THEN TruncDiv(x * Unit, y) ELSE TruncDiv(-(x * Unit), -y)
Leq(x, y) == x <= y
Less(x, y) == x < y

\* math.pow(x, k) for a natural exponent k
RECURSIVE Pow(_, _)
Pow(x, k) == IF k = 0 THEN One ELSE Mul(x, Pow(x, k - 1))

\* the largest r with r * r <= n, searched in lo..hi
RECURSIVE ISqrtIn(_, _, _)
ISqrtIn(n, lo, hi) ==
    IF lo >= hi THEN lo
    ELSE IF ((lo + hi + 1) \div 2) * ((lo + hi + 1) \div 2) <= n
         THEN ISqrtIn(n, (lo + hi + 1) \div 2, hi)
         ELSE ISqrtIn(n, lo, ((lo + hi + 1) \div 2) - 1)

RECURSIVE SumSeq(_)
SumSeq(s) == IF s = <<>> THEN Zero ELSE Add(Head(s), SumSeq(Tail(s)))

\* the Euclidean norm of a difference vector: sqrt of the exact sum of squares
Norm(dlt) == ISqrtIn(SumSeq([k \in 1..Len(dlt) |-> dlt[k] * dlt[k]]), 0,
                     SumSeq([k \in 1..Len(dlt) |-> Abs(dlt[k])]))

\* ------------------------------------------------------------ numpy arrays
\* An ndarray of two axes: its shape and its rows.
NDArray(r, c, f(_, _)) ==
    [shape |-> <<r, c>>,
     data |-> SubSeq([i \in 1..r |-> SubSeq([j \in 1..c |-> f(i, j)], 1, c)], 1, r)]

Rows(A) == A.shape[1]
Cols(A) == A.shape[2]
\* np.zeros(shape)
Zeros(r, c) == NDArray(r, c, LAMBDA i, j: Zero)
\* np.full(shape, x)
Full(r, c, x) == NDArray(r, c, LAMBDA i, j: x)
\* element-wise A * B, A + B on arrays of one shape
EMul(A, B) == NDArray(Rows(A), Cols(A), LAMBDA i, j: Mul(A.data[i][j], B.data[i][j]))
EAdd(A, B) == NDArray(Rows(A), Cols(A), LAMBDA i, j: Add(A.data[i][j], B.data[i][j]))
\* A * x for a scalar x
Scale(A, x) == NDArray(Rows(A), Cols(A), LAMBDA i, j: Mul(A.data[i][j], x))

\* ------------------------------------------------------------ collaborators
\* Utils.inplace_clip_by_abs: every element clamped to [-bound, bound].
inplace_clip_by_abs(A, bound) ==
    NDArray(Rows(A), Cols(A),
        LAMBDA i, j:
            IF Less(bound, A.data[i][j]) THEN bound
            ELSE IF Less(A.data[i][j], Neg(bound)) THEN Neg(bound)
            ELSE A.data[i][j])

\* The noise source is sequential state: a cursor into a cycle of factors
\* around 1.0, or the identity mock (factor 1.0 everywhere).
NoiseStream == <<One, R(3, 2), R(1, 2)>>
NoiseAt(k) == NoiseStream[(k % Len(NoiseStream)) + 1]
MaxNoise == R(3, 2)

\* Randomizer.gen_epsilon_matrix(shape): the matrix and the Randomizer after.
gen_epsilon_matrix(rnd, shape) ==
    IF rnd.mode = "identity"
    THEN [m |-> Full(shape[1], shape[2], One), rnd |-> rnd]
    ELSE [m |-> NDArray(shape[1], shape[2],
                    LAMBDA i, j: NoiseAt(rnd.cursor + (i - 1) * shape[2] + (j - 1))),
          rnd |-> [rnd EXCEPT !.cursor =
                      (rnd.cursor + shape[1] * shape[2]) % Len(NoiseStream)]]

\* scipy cdist(X, Y): the (rows X, rows Y) matrix of Euclidean distances.
cdist(X, Y) ==
    NDArray(Rows(X), Rows(Y),
        LAMBDA i, j:
            Norm([k \in 1..Cols(X) |-> Sub(X.data[i][k], Y.data[j][k])]))

\* squareform(pdist(X)): pairwise distances, zero diagonal.
pdist(X) == cdist(X, X)

\* --------------------------------------------------------------- urgencies
\* np.logical_and(distances > 0, distances <= threshold), element (i, j)
in_range(distances, threshold, i, j) ==
    /\ Less(Zero, distances.data[i][j])
    /\ Leq(distances.data[i][j], threshold)

\* np.count_nonzero(in_range, axis=1) for row i
count_in_range(distances, threshold, i) ==
    Cardinality({j \in 1..Cols(distances) : in_range(distances, threshold, i, j)})

\* weights @ X: (n, k) times (k, d)
matmul(W, X) ==
    NDArray(Rows(W), Cols(X),
        LAMBDA i, k: SumSeq([j \in 1..Cols(W) |-> Mul(W.data[i][j], X.data[j][k])]))

\* np.matmul(weights.reshape((n, 1, k)), distance_vectors).reshape(n, -1) with
\* distance_vectors[i][j] = X[i] - Y[j]: row i is sum_j W[i][j] * (X[i] - Y[j])
weighted_displacements(W, X, Y) ==
    NDArray(Rows(X), Cols(X),
        LAMBDA i, k: SumSeq([j \in 1..Cols(W) |->
                        Mul(W.data[i][j], Sub(X.data[i][k], Y.data[j][k]))]))

\* u_vector * u_p * uw[:, col].reshape((-1, 1))
apply_weights(U, u_p, uw, col) ==
    NDArray(Rows(U), Cols(U),
        LAMBDA i, k: Mul(Mul(U.data[i][k], u_p), uw.data[i][col]))

\* the weights matrix of _calculate_urgency1: 1 / (in-range count of the row)
\* where in range, the zeros_like fill elsewhere
u1_weights(distances, c) ==
    NDArray(Rows(distances), Cols(distances),
        LAMBDA i, j:
            IF in_range(distances, c.d_max, i, j)
            THEN Div(One, R(count_in_range(distances, c.d_max, i), 1))
            ELSE Zero)

\* Engine._calculate_urgency1: the urgency and the Randomizer after the draw
calculate_urgency1(P, c, rnd, distances) ==
    LET weights == u1_weights(distances, c)
        baricenters == matmul(weights, P)
        eps == gen_epsilon_matrix(rnd, P.shape)
        u1_vector == EMul(EAdd(baricenters, Scale(P, Neg(One))), eps.m)
    IN [u |-> apply_weights(u1_vector, c.u1_p, c.uw, 1), rnd |-> eps.rnd]

\* faulty variant: the upper threshold of the range test is dropped
u2_weights_no_threshold(distances, c) ==
    NDArray(Rows(distances), Cols(distances),
        LAMBDA i, j:
            IF Less(Zero, distances.data[i][j])
            THEN Div(Sub(c.u2_dopt, distances.data[i][j]),
                     Mul(c.u2_dopt, distances.data[i][j]))
            ELSE Zero)

\* the weights matrix of _calculate_urgency2:
\* (u2_dopt - distance) / (u2_dopt * distance) where in range, else zero
u2_weights(distances, c) ==
    NDArray(Rows(distances), Cols(distances),
        LAMBDA i, j:
            IF in_range(distances, c.u2_dopt, i, j)
            THEN Div(Sub(c.u2_dopt, distances.data[i][j]),
                     Mul(c.u2_dopt, distances.data[i][j]))
            ELSE Zero)

\* Engine._calculate_urgency2
calculate_urgency2(P, c, rnd, distances) ==
    LET weights == u2_weights(distances, c)
        eps == gen_epsilon_matrix(rnd, P.shape)
        u2_vector == EMul(weighted_displacements(weights, P, P), eps.m)
    IN [u |-> apply_weights(u2_vector, c.u2_p, c.uw, 2), rnd |-> eps.rnd]

\* the weights matrix of _calculate_urgency3 over particle-predator distances
u3_weights(distances_from_predators, c) ==
    NDArray(Rows(distances_from_predators), Cols(distances_from_predators),
        LAMBDA i, j:
            IF in_range(distances_from_predators, c.u3_dmax, i, j)
            THEN Div(Sub(c.u3_dmax, distances_from_predators.data[i][j]),
                     Mul(c.u3_dmax, distances_from_predators.data[i][j]))
            ELSE Zero)

\* Engine._calculate_urgency3
calculate_urgency3(P, PredP, c, rnd) ==
    LET distances_from_predators == cdist(P, PredP)
        weights == u3_weights(distances_from_predators, c)
        eps == gen_epsilon_matrix(rnd, P.shape)
        u3_vector == EMul(weighted_displacements(weights, P, PredP), eps.m)
    IN [u |-> apply_weights(u3_vector, c.u3_p, c.uw, 3), rnd |-> eps.rnd]

\* ------------------------------------------------------------------- state
VARIABLES
    arrays,           \* heap of numpy arrays: address -> ndarray
    objects,          \* heap of State objects: address -> fields (array addresses)
    cfg,              \* Engine._cfg
    rand,             \* Engine._rand
    pc,               \* where the caller is: new, error, ready, running, done, urgency
    args,             \* the arguments of the run in progress
    iteration,        \* the loop variable of run
    states,           \* run's local list `states` (addresses of State objects)
    urgency_vectors,  \* run's local list `urgency_vectors`
    result,           \* the EngineRunResult returned by run
    trace,            \* history: the live State's value at start and after each step
    aux,              \* history: intermediate values of the last particle step
    ucall             \* the last direct call of an urgency function

vars == <<arrays, objects, cfg, rand, pc, args, iteration, states,
          urgency_vectors, result, trace, aux, ucall>>

\* Engine._state: the State object the Engine was constructed with
self_state == 1

None == [none |-> TRUE]

\* the value of a State object: every field dereferenced
View(H, st) ==
    [p |-> H[st.p], v |-> H[st.v], a |-> H[st.a],
     pred_p |-> H[st.pred_p], pred_v |-> H[st.pred_v], pred_a |-> H[st.pred_a]]

\* faulty variant: copy.copy, a new State object over the same arrays
deepcopy_shallow(H, O, src) ==
    [arrays |-> H, objects |-> Append(O, O[src]), ref |-> Len(O) + 1]

\* copy.deepcopy(self._state): a new State object over new arrays
deepcopy(H, O, src) ==
    LET st == O[src]
        base == Len(H)
    IN [arrays |-> H \o <<H[st.p], H[st.v], H[st.a],
                          H[st.pred_p], H[st.pred_v], H[st.pred_a]>>,
        objects |-> Append(O, [p |-> base + 1, v |-> base + 2, a |-> base + 3,
                               pred_p |-> base + 4, pred_v |-> base + 5,
                               pred_a |-> base + 6]),
        ref |-> Len(O) + 1]

\* line 151: u_tot / u_max * a_max
raw_acceleration(u_tot, c) ==
    NDArray(Rows(u_tot), Cols(u_tot),
        LAMBDA i, j: Mul(Div(u_tot.data[i][j], c.u_max), c.a_max))

\* faulty variant: the acceleration is left unclipped
clipped_acceleration_unclipped(u_tot, c) == raw_acceleration(u_tot, c)

\* lines 151-152: u_tot / u_max * a_max, then
\* Utils.inplace_clip_by_abs(a, a_max)
clipped_acceleration(u_tot, c) ==
    inplace_clip_by_abs(raw_acceleration(u_tot, c), c.a_max)

\* faulty variant: the velocity is left unclipped
integrate_velocity_unclipped(V, A, c, timestep) ==
    EAdd(Scale(V, Pow(c.v_decay, timestep)), Scale(A, R(timestep, 1)))

\* v *= pow(v_decay, timestep); v += a * timestep; clip v to v_max
integrate_velocity(V, A, c, timestep) ==
    inplace_clip_by_abs(
        EAdd(Scale(V, Pow(c.v_decay, timestep)), Scale(A, R(timestep, 1))),
        c.v_max)

\* A op= B * x in place: the array at dst becomes H[dst] + H[src] * x
add_scaled_in_place(H, dst, src, x) ==
    [H EXCEPT ![dst] = EAdd(H[dst], Scale(H[src], x))]

\* lines 156-158 in place on the array of v, reading the array of a
velocity_in_place(H, v, a, c, timestep) ==
    [H EXCEPT ![v] = integrate_velocity(H[v], H[a], c, timestep)]

\* line 150
total_urgency(u1, u2, u3) == EAdd(EAdd(u1, u2), u3)

\* lines 142-148 of _step_particles: the three urgencies, drawn in order
calculate_urgencies(P, PredP, c, rnd) ==
    LET r1 == calculate_urgency1(P, c, rnd, pdist(P))
        r2 == calculate_urgency2(P, c, r1.rnd, pdist(P))
        r3 == calculate_urgency3(P, PredP, c, r2.rnd)
    IN [u1 |-> r1.u, u2 |-> r2.u, u3 |-> r3.u, rnd |-> r3.rnd]

\* faulty variant: the noise is applied before the clip
acceleration_noise_first(us, c) ==
    LET raw == raw_acceleration(total_urgency(us.u1, us.u2, us.u3), c)
        eps == gen_epsilon_matrix(us.rnd, raw.shape)
    IN [a_clip |-> inplace_clip_by_abs(raw, c.a_max), eps_a |-> eps.m,
        a |-> inplace_clip_by_abs(EMul(raw, eps.m), c.a_max), rnd |-> eps.rnd]

\* lines 150-154 of _step_particles: the clipped acceleration, the noise drawn
\* for it, and the acceleration stored
acceleration(us, c) ==
    LET a_clip == clipped_acceleration(total_urgency(us.u1, us.u2, us.u3), c)
        eps == gen_epsilon_matrix(us.rnd, a_clip.shape)
    IN [a_clip |-> a_clip, eps_a |-> eps.m, a |-> EMul(a_clip, eps.m),
        rnd |-> eps.rnd]

\* lines 151-160 of _step_particles: `a` is rebound to a new array, v and p
\* are updated in place
integrate_particles(H, O, c, timestep, return_urgency_vectors, us, acc) ==
    LET st == O[self_state]
        H1 == Append(H, acc.a)
        H2 == velocity_in_place(H1, st.v, Len(H) + 1, c, timestep)
        H3 == add_scaled_in_place(H2, st.p, st.v, R(timestep, 1))
    IN [arrays |-> H3,
        objects |-> [O EXCEPT ![self_state].a = Len(H) + 1],
        rnd |-> acc.rnd,
        urgencies |-> IF return_urgency_vectors
                      THEN <<us.u1, us.u2, us.u3>> ELSE None,
        u |-> <<us.u1, us.u2, us.u3>>,
        a_clip |-> acc.a_clip, eps_a |-> acc.eps_a]

apply_urgencies(H, O, c, timestep, return_urgency_vectors, us) ==
    integrate_particles(H, O, c, timestep, return_urgency_vectors, us,
                        acceleration(us, c))

\* Engine._step_particles: the heaps and Randomizer after the step, the value
\* returned, and the intermediate values of the step
step_particles(H, O, c, rnd, timestep, return_urgency_vectors) ==
    apply_urgencies(H, O, c, timestep, return_urgency_vectors,
        calculate_urgencies(H[O[self_state].p], H[O[self_state].pred_p], c, rnd))

\* pred_a *= eps in place
scale_in_place(H, dst, M) == [H EXCEPT ![dst] = EMul(H[dst], M)]

\* Engine._step_predators
step_predators(H, O, rnd, timestep) ==
    LET st == O[self_state]
        eps == gen_epsilon_matrix(rnd, H[st.pred_a].shape)
        H1 == scale_in_place(H, st.pred_a, eps.m)
        H2 == add_scaled_in_place(H1, st.pred_v, st.pred_a, R(timestep, 1))
        H3 == add_scaled_in_place(H2, st.pred_p, st.pred_v, R(timestep, 1))
    IN [arrays |-> H3, rnd |-> eps.rnd, eps_pred |-> eps.m]

\* faulty variant: the shape of a is not compared
inconsistent_shapes_no_a(H, st, c) ==
    \/ H[st.p].shape # H[st.v].shape
    \/ c.uw.shape # <<H[st.p].shape[1], 3>>

\* the sanity check of Engine.__init__: TRUE when it raises ValueError
inconsistent_shapes(H, st, c) ==
    \/ H[st.p].shape # H[st.v].shape
    \/ H[st.p].shape # H[st.a].shape
    \/ c.uw.shape # <<H[st.p].shape[1], 3>>

\* faulty variant: the test without its -1
retained_off_by_one(iter, skip_initial_states) == iter > skip_initial_states

\* run's test for appending the post-step state
retained(iter, skip_initial_states) == iter > (skip_initial_states - 1)

\* faulty variant: the initial State is recorded whatever skip_initial_states is
initial_lists_always(H, O, skip_initial_states) ==
    [arrays |-> deepcopy(H, O, self_state).arrays,
     objects |-> deepcopy(H, O, self_state).objects,
     states |-> <<deepcopy(H, O, self_state).ref>>,
     urgency_vectors |->
        <<[k \in 1..3 |-> Zeros(H[O[self_state].p].shape[1],
                                H[O[self_state].p].shape[2])]>>]

\* lines 104-117 of run: the lists before the loop
initial_lists(H, O, skip_initial_states) ==
    IF skip_initial_states > 0
    THEN [arrays |-> H, objects |-> O, states |-> <<>>, urgency_vectors |-> <<>>]
    ELSE LET dc == deepcopy(H, O, self_state)
             shape == H[O[self_state].p].shape
         IN [arrays |-> dc.arrays, objects |-> dc.objects, states |-> <<dc.ref>>,
             urgency_vectors |->
                 <<[k \in 1..3 |-> Zeros(shape[1], shape[2])]>>]

\* ------------------------------------------------------------------ inputs
ParticleCounts == 1..MaxN
PredatorCounts == 0..MaxM
Timesteps == {1, 2}
PosVals == {Zero, R(2, 1)}
\* initial (velocity, acceleration) fills; the second exceeds v_max and a_max
KinVals == {<<Zero, Zero>>, <<R(5, 1), R(2, 1)>>}

\* r points, each with the same coordinate from S on every axis
PointMatrices(r, c, S) ==
    {NDArray(r, c, LAMBDA i, j: f[i]) : f \in [1..r -> S]}

Matrices(r, c, S) ==
    {NDArray(r, c, LAMBDA i, j: f[<<i, j>>]) : f \in [(1..r) \X (1..c) -> S]}

RandStates ==
    {[mode |-> "identity", cursor |-> 0]}
        \cup {[mode |-> "noise", cursor |-> k] : k \in 0..(Len(NoiseStream) - 1)}

\* a Config: the sight thresholds, the u1 parameter and the weights vary
Config(uw, d_max, u2_dopt, u3_dmax, u1_p) ==
    [v_max |-> R(2, 1), v_decay |-> R(1, 2), a_max |-> One, d_max |-> d_max,
     u_max |-> One, u1_p |-> u1_p, u2_p |-> One, u2_dopt |-> u2_dopt,
     u3_p |-> One, u3_dmax |-> u3_dmax, uw |-> uw]

\* the Config of a run
RunConfig(n) == Config(Full(n, 3, One), R(2, 1), R(3, 1), R(2, 1), One)

\* a caller's State object over six distinct arrays
NewState(P, V, A, PP, PV, PA) ==
    [arrays |-> <<P, V, A, PP, PV, PA>>,
     objects |-> <<[p |-> 1, v |-> 2, a |-> 3,
                    pred_p |-> 4, pred_v |-> 5, pred_a |-> 6]>>]

NoArgs ==
    [timestep |-> 0, iterations |-> 0, skip_initial_states |-> 0,
     return_urgency_vectors |-> FALSE]

Start(s, c, rnd, at) ==
    /\ arrays = s.arrays
    /\ objects = s.objects
    /\ cfg = c
    /\ rand = rnd
    /\ pc = at
    /\ args = NoArgs
    /\ iteration = 0
    /\ states = <<>>
    /\ urgency_vectors = <<>>
    /\ result = None
    /\ trace = <<View(s.arrays, s.objects[self_state])>>
    /\ aux = None
    /\ ucall = None

\* ----------------------------------------------------------- Spec: one run
\* An Engine constructed over a consistent State and Config.
Init ==
    \E n \in ParticleCounts, m \in PredatorCounts, kin \in KinVals :
        \E P \in PointMatrices(n, Dim, PosVals), c \in {RunConfig(n)}, rnd \in RandStates :
            Start(NewState(P, Full(n, Dim, kin[1]), Full(n, Dim, kin[2]),
                           Full(m, Dim, One), Zeros(m, Dim), Full(m, Dim, One)),
                  c, rnd, "ready")

\* run(...), lines 94-117: up to the loop
RunBegin ==
    /\ pc = "ready"
    /\ \E ts \in Timesteps, its \in 0..MaxIter, ruv \in BOOLEAN :
        \E skip \in 0..its :
            LET l == initial_lists(arrays, objects, skip)
            IN /\ args' = [timestep |-> ts, iterations |-> its,
                           skip_initial_states |-> skip,
                           return_urgency_vectors |-> ruv]
               /\ arrays' = l.arrays
               /\ objects' = l.objects
               /\ states' = l.states
               /\ urgency_vectors' = l.urgency_vectors
    /\ iteration' = 0
    /\ pc' = "running"
    /\ UNCHANGED <<cfg, rand, result, trace, aux, ucall>>

\* one iteration of run's loop, lines 119-133
Iterate ==
    /\ pc = "running"
    /\ iteration < args.iterations
    /\ \E sp \in {step_particles(arrays, objects, cfg, rand, args.timestep,
                                args.return_urgency_vectors)} :
       \E pr \in {step_predators(sp.arrays, sp.objects, sp.rnd, args.timestep)} :
       LET it == iteration + 1
           dc == deepcopy(pr.arrays, sp.objects, self_state)
       IN /\ iteration' = it
          /\ rand' = pr.rnd
          /\ IF retained(it, args.skip_initial_states)
             THEN /\ arrays' = dc.arrays
                  /\ objects' = dc.objects
                  /\ states' = Append(states, dc.ref)
                  /\ urgency_vectors' =
                        IF args.return_urgency_vectors
                        THEN Append(urgency_vectors, sp.urgencies)
                        ELSE urgency_vectors
             ELSE /\ arrays' = pr.arrays
                  /\ objects' = sp.objects
                  /\ UNCHANGED <<states, urgency_vectors>>
          /\ trace' = Append(trace, View(pr.arrays, sp.objects[self_state]))
          /\ aux' = [u |-> sp.u, a_clip |-> sp.a_clip, eps_a |-> sp.eps_a,
                     eps_pred |-> pr.eps_pred]
    /\ UNCHANGED <<cfg, pc, args, result, ucall>>

\* the return of run, lines 135-138
RunEnd ==
    /\ pc = "running"
    /\ iteration = args.iterations
    /\ result' = [states |-> states,
                  urgencies |-> IF args.return_urgency_vectors
                                THEN urgency_vectors ELSE None]
    /\ pc' = "done"
    /\ UNCHANGED <<arrays, objects, cfg, rand, args, iteration, states,
                   urgency_vectors, trace, aux, ucall>>

Next == RunBegin \/ Iterate \/ RunEnd

Spec == Init /\ [][Next]_vars

\* ------------------------------------------------- SpecCtor: construction
\* A caller's State and Config of arbitrary shapes, before Engine(state, cfg).
ShapesOver(rows, cols) == {Zeros(r, c) : r \in rows, c \in cols}

InitCtor ==
    \E P \in ShapesOver(ParticleCounts, {Dim, Dim + 1}),
       V \in ShapesOver(ParticleCounts, {Dim, Dim + 1}),
       A \in ShapesOver(ParticleCounts, {Dim, Dim + 1}),
       uw \in ShapesOver(ParticleCounts, {2, 3}),
       PP \in ShapesOver(PredatorCounts, {Dim, Dim + 1}),
       PV \in ShapesOver(PredatorCounts, {Dim}),
       PA \in ShapesOver(PredatorCounts, {Dim}) :
        Start(NewState(P, V, A, PP, PV, PA),
              Config(uw, R(2, 1), R(3, 1), R(2, 1), One),
              [mode |-> "identity", cursor |-> 0], "new")

\* Engine.__init__, lines 74-92
EngineInit ==
    /\ pc = "new"
    /\ pc' = IF inconsistent_shapes(arrays, objects[self_state], cfg)
             THEN "error" ELSE "ready"
    /\ UNCHANGED <<arrays, objects, cfg, rand, args, iteration, states,
                   urgency_vectors, result, trace, aux, ucall>>

NextCtor == EngineInit

SpecCtor == InitCtor /\ [][NextCtor]_vars

\* ------------------------------------- SpecUrgency: the urgency functions
UPosVals == {Zero, One, R(3, 1)}
\* (d_max, u2_dopt, u3_dmax, u1_p, fill of uw)
UParams ==
    {<<One, One, One, One, One>>,
     <<R(2, 1), R(2, 1), R(2, 1), R(2, 1), One>>,
     <<R(2, 1), One, R(3, 1), One, R(2, 1)>>}

InitUrgency ==
    \E n \in ParticleCounts, m \in PredatorCounts, up \in UParams :
        \E P \in Matrices(n, Dim, UPosVals), rnd \in RandStates :
            Start(NewState(P, Zeros(n, Dim), Zeros(n, Dim),
                           Full(m, Dim, One), Zeros(m, Dim), Zeros(m, Dim)),
                  Config(Full(n, 3, up[5]), up[1], up[2], up[3], up[4]),
                  rnd, "urgency")

\* the particle positions and predator positions of the live State
LiveP == arrays[objects[self_state].p]
LivePredP == arrays[objects[self_state].pred_p]

CallUrgency1 ==
    /\ pc = "urgency"
    /\ \E r \in {calculate_urgency1(LiveP, cfg, rand, pdist(LiveP))} :
        /\ ucall' = [fn |-> "u1", out |-> r.u]
        /\ rand' = r.rnd
    /\ pc' = "called"
    /\ UNCHANGED <<arrays, objects, cfg, args, iteration, states,
                   urgency_vectors, result, trace, aux>>

CallUrgency2 ==
    /\ pc = "urgency"
    /\ \E r \in {calculate_urgency2(LiveP, cfg, rand, pdist(LiveP))} :
        /\ ucall' = [fn |-> "u2", out |-> r.u]
        /\ rand' = r.rnd
    /\ pc' = "called"
    /\ UNCHANGED <<arrays, objects, cfg, args, iteration, states,
                   urgency_vectors, result, trace, aux>>

CallUrgency3 ==
    /\ pc = "urgency"
    /\ \E r \in {calculate_urgency3(LiveP, LivePredP, cfg, rand)} :
        /\ ucall' = [fn |-> "u3", out |-> r.u]
        /\ rand' = r.rnd
    /\ pc' = "called"
    /\ UNCHANGED <<arrays, objects, cfg, args, iteration, states,
                   urgency_vectors, result, trace, aux>>

NextUrgency == CallUrgency1 \/ CallUrgency2 \/ CallUrgency3

SpecUrgency == InitUrgency /\ [][NextUrgency]_vars

\* ------------------------------------------------------------------ claims
\* the value of the live State, and of the k-th recorded State
Live == View(arrays, objects[self_state])
Recorded(k) == View(arrays, objects[states[k]])
Returned(k) == View(arrays, objects[result.states[k]])

\* run has returned from a call within its contract
Returned_InContract ==
    /\ pc = "done"
    /\ args.skip_initial_states <= args.iterations

\* every element of A is within [-bound, bound]
WithinAbs(A, bound) ==
    \A i \in 1..Rows(A) : \A j \in 1..Cols(A) :
        A.data[i][j] <= bound /\ A.data[i][j] >= -bound

\* x clamped to [-bound, bound]
Clamp(x, bound) == IF x > bound THEN bound ELSE IF x < -bound THEN -bound ELSE x

\* C3: the result's states list has iterations + 1 entries when
\* skip_initial_states = 0 and iterations - skip_initial_states + 1 entries
\* when it is positive, whatever return_urgency_vectors is.
C3_StatesLength ==
    Returned_InContract =>
        Len(result.states) =
            IF args.skip_initial_states = 0
            THEN args.iterations + 1
            ELSE args.iterations - args.skip_initial_states + 1

C3_Witness ==
    /\ Returned_InContract
    /\ args.skip_initial_states > 0
    /\ args.iterations > args.skip_initial_states
    /\ args.return_urgency_vectors
    /\ Len(result.states) = 2

\* the step count after which the k-th entry (from 1) of states was recorded
StepsOf(k) ==
    IF args.skip_initial_states = 0 THEN k - 1
    ELSE args.skip_initial_states + k - 1

\* C4: the recorded states are chronological and indexed by step count: the
\* k-th entry is the live State after StepsOf(k) steps (the initial State
\* only when skip_initial_states = 0), exactly `iterations` steps were taken,
\* and the last entry is the State after the last step.
C4_Chronological ==
    Returned_InContract =>
        /\ iteration = args.iterations
        /\ Len(trace) = args.iterations + 1
        /\ \A k \in 1..Len(result.states) : Returned(k) = trace[StepsOf(k) + 1]
        /\ Len(result.states) >= 1
        /\ Returned(Len(result.states)) = trace[args.iterations + 1]

C4_Witness ==
    /\ Returned_InContract
    /\ args.skip_initial_states > 0
    /\ Len(result.states) = 2
    /\ Returned(1) # Returned(2)
    /\ Returned(1) # trace[1]

\* the array addresses a State object holds
Addresses(st) == {st.p, st.v, st.a, st.pred_p, st.pred_v, st.pred_a}

\* C10: an entry of states is an independent copy of the live State at the
\* moment it is appended, and no later step changes any field of it.
C10_SnapshotIsolation ==
    [][/\ Len(states') >= Len(states)
       /\ \A j \in 1..Len(states) :
            /\ states'[j] = states[j]
            /\ View(arrays', objects'[states'[j]]) = Recorded(j)
       /\ \A j \in (Len(states) + 1)..Len(states') :
            /\ View(arrays', objects'[states'[j]])
                  = View(arrays', objects'[self_state])
            /\ Addresses(objects'[states'[j]])
                  \cap Addresses(objects'[self_state]) = {}]_vars

C10_Witness ==
    /\ pc = "done"
    /\ Len(states) >= 2
    /\ Recorded(1) # Live
    /\ Recorded(1).p # Live.p
    /\ Recorded(1) # Recorded(2)

\* C6: after every particle step every component of v is within
\* [-v_max, v_max]; v is the decayed velocity plus a * timestep, clipped; and
\* the position moved by that clipped velocity times timestep.  Every
\* recorded post-step state satisfies the bound.
C6_VelocityClipped ==
    /\ \A j \in 2..Len(trace) :
        /\ WithinAbs(trace[j].v, cfg.v_max)
        /\ \A i \in 1..Rows(trace[j].v) : \A k \in 1..Cols(trace[j].v) :
            /\ trace[j].v.data[i][k] =
                  Clamp(Mul(trace[j - 1].v.data[i][k],
                            Pow(cfg.v_decay, args.timestep))
                          + Mul(trace[j].a.data[i][k], R(args.timestep, 1)),
                        cfg.v_max)
            /\ trace[j].p.data[i][k] =
                  trace[j - 1].p.data[i][k]
                      + Mul(trace[j].v.data[i][k], R(args.timestep, 1))
    /\ \A k \in 1..Len(states) :
          StepsOf(k) >= 1 => WithinAbs(Recorded(k).v, cfg.v_max)

\* the initial velocity exceeds v_max and a step has clipped it
C6_Witness ==
    /\ iteration >= 1
    /\ ~WithinAbs(trace[1].v, cfg.v_max)
    /\ Len(states) >= 1
    /\ StepsOf(Len(states)) >= 1
    /\ \E i \in 1..Rows(Live.v) : Live.v.data[i][1] = cfg.v_max

\* C7: the acceleration is clipped before the noise: the pre-noise value is
\* u_total / u_max * a_max clamped to [-a_max, a_max], the stored value is
\* that times the step's noise factor, and so within a_max times the largest
\* noise factor.
C7_ClipBeforeNoise ==
    iteration >= 1 =>
        /\ WithinAbs(aux.a_clip, cfg.a_max)
        /\ WithinAbs(Live.a, Mul(cfg.a_max, MaxNoise))
        /\ \A i \in 1..Rows(Live.a) : \A k \in 1..Cols(Live.a) :
            /\ aux.a_clip.data[i][k] =
                  Clamp(Mul(Div(aux.u[1].data[i][k] + aux.u[2].data[i][k]
                                    + aux.u[3].data[i][k], cfg.u_max),
                            cfg.a_max),
                        cfg.a_max)
            /\ Live.a.data[i][k] =
                  Mul(aux.a_clip.data[i][k], aux.eps_a.data[i][k])

\* a stored acceleration above a_max
C7_Witness ==
    /\ iteration >= 1
    /\ \E i \in 1..Rows(Live.a) : Live.a.data[i][1] > cfg.a_max

\* the round trip at entry k: the urgencies summed, scaled and clamped give
\* the recorded acceleration
RoundTrip(k) ==
    \A i \in 1..Rows(Returned(k).a) : \A j \in 1..Cols(Returned(k).a) :
        Returned(k).a.data[i][j] =
            Clamp(Mul(Div(result.urgencies[k][1].data[i][j]
                              + result.urgencies[k][2].data[i][j]
                              + result.urgencies[k][3].data[i][j], cfg.u_max),
                      cfg.a_max),
                  cfg.a_max)

\* run returned urgency vectors under the identity noise source
Returned_Identity ==
    /\ Returned_InContract
    /\ args.return_urgency_vectors
    /\ rand.mode = "identity"

\* C5 as claimed: the round trip holds at every index of the result, the
\* zero-filled entry of the initial State included.
C5_RoundTripEveryIndex ==
    Returned_Identity => \A k \in 1..Len(result.states) : RoundTrip(k)

\* C5 as amended: urgencies and states have one entry per index, and the
\* round trip holds at every index recorded after a step.
C5_RoundTripAfterStep ==
    Returned_Identity =>
        /\ Len(result.urgencies) = Len(result.states)
        /\ \A k \in 1..Len(result.states) : StepsOf(k) >= 1 => RoundTrip(k)

\* a run from a nonzero initial acceleration that recorded the initial State
\* and two steps, the first of them clipped
C5_Witness ==
    /\ Returned_Identity
    /\ args.skip_initial_states = 0
    /\ Len(result.states) = 3
    /\ ~WithinAbs(trace[1].a, Zero)
    /\ \E i \in 1..Rows(Returned(2).a) : Returned(2).a.data[i][1] = cfg.a_max

\* C2 as claimed: the pred_a of step k is the initial pred_a times the noise
\* matrix drawn in step k alone.
C2_FreshPredatorNoise ==
    iteration >= 1 =>
        \A i \in 1..Rows(Live.pred_a) : \A k \in 1..Cols(Live.pred_a) :
            Live.pred_a.data[i][k] =
                Mul(trace[1].pred_a.data[i][k], aux.eps_pred.data[i][k])

\* the shapes the constructor validates disagree, stated on rows and columns
ShapesDisagree ==
    \/ Rows(Live.p) # Rows(Live.v) \/ Cols(Live.p) # Cols(Live.v)
    \/ Rows(Live.p) # Rows(Live.a) \/ Cols(Live.p) # Cols(Live.a)
    \/ Rows(cfg.uw) # Rows(Live.p) \/ Cols(cfg.uw) # 3

\* C8: construction raises exactly when p, v, a disagree in shape or uw is
\* not (n, 3); predator shapes play no part; when it raises, no stepping
\* has touched the State and nothing was recorded.
C8_ShapeMismatch ==
    /\ pc = "error" => ShapesDisagree
    /\ pc = "ready" => ~ShapesDisagree
    /\ pc = "error" =>
          /\ Live = trace[1]
          /\ iteration = 0
          /\ states = <<>>
          /\ result = None

\* an Engine built over predator arrays that disagree with one another and
\* with the particles' dimension
C8_Witness ==
    /\ pc = "ready"
    /\ Live.pred_p.shape # Live.pred_v.shape
    /\ Live.pred_v.shape # Live.pred_a.shape
    /\ Cols(Live.pred_p) # Cols(Live.p)

\* pair (i, j) of distance matrix D is strictly within (0, threshold]
Near(D, i, j, threshold) == D.data[i][j] > 0 /\ D.data[i][j] <= threshold

\* row i of A is zero on every axis
ZeroRow(A, i) == \A k \in 1..Cols(A) : A.data[i][k] = 0

C1_IsolatedZero ==
    (pc = "called" /\ ucall.fn = "u1") =>
        \A i \in 1..Rows(LiveP) :
            (\A j \in 1..Rows(LiveP) : ~Near(pdist(LiveP), i, j, cfg.d_max))
                => ZeroRow(ucall.out, i)

====
